---- MODULE Spec2Model ----
(***************************************************************************)
(* A model of the Spawn SDK (sdk/spawn/__init__.py) and of the example     *)
(* integration (sdk/examples/clawdbot_integration.py).                     *)
(*                                                                         *)
(* The program is a set of asyncio coroutines on one event loop: the       *)
(* dispatch loop SpawnConnection._message_loop, and the callers of the     *)
(* SDK (approval.confirm, agents.request_spawn, the step handlers of the   *)
(* example).  A coroutine runs alone from one await to the next, so every  *)
(* action below is the code between two awaits of one coroutine.  Each     *)
(* `await ws.send(...)` ends an action: a send may suspend on a full       *)
(* write buffer.                                                           *)
(*                                                                         *)
(* Strings the code only compares are TLA+ strings; paths and glob         *)
(* patterns, which the code takes apart, are sequences of characters.      *)
(***************************************************************************)
EXTENDS Integers, Sequences, FiniteSets, TLC

(***************************************************************************)
(* Bounds of the model.                                                    *)
(***************************************************************************)
\* Operations of the SDK invoked in one run, each from a task of its own.
MaxCalls == 2
\* Inbound messages the websocket buffers before the dispatch loop reads.
MaxInbox == 1
\* Hours the clock runs.
MaxHours == 2
\* Segments of the paths given to the path queries.
MaxSegments == 3

\* The tasks that call the SDK: caller c makes the c-th call.
Callers == 1..MaxCalls
\* An operation registers at most two correlated requests (handle_file_write).
MaxRequests == 2 * MaxCalls
Requests == 1..MaxRequests
\* The sub-agent handles: an operation creates at most one.
Handles == 1..MaxCalls

(***************************************************************************)
(* Characters and paths.                                                   *)
(***************************************************************************)
\* os.path.expanduser's home directory (the value of $HOME).
Home == <<"/", "h">>

\* os.path.expanduser: a leading "~" that ends the path or precedes "/" is
\* replaced by the home directory; anything else is returned as it is.
expanduser(p) ==
    IF p # <<>> /\ Head(p) = "~" /\ (Len(p) = 1 \/ p[2] = "/")
    THEN Home \o Tail(p)
    ELSE p

\* The regular expression _match_glob builds, as a sequence of tokens: the
\* replacements are applied left to right, so "**" is taken before "*";
\* "." becomes the literal dot, every other character stands for itself.
RECURSIVE GlobToRegex(_)
GlobToRegex(pattern) ==
    IF pattern = <<>> THEN <<>>
    ELSE IF Len(pattern) >= 2 /\ pattern[1] = "*" /\ pattern[2] = "*"
         THEN <<"DOTSTAR">> \o GlobToRegex(SubSeq(pattern, 3, Len(pattern)))
    ELSE IF pattern[1] = "*"
         THEN <<"SEGSTAR">> \o GlobToRegex(Tail(pattern))
    ELSE <<pattern[1]>> \o GlobToRegex(Tail(pattern))

\* re.match of ^regex$ against s: DOTSTAR is ".*", which takes any
\* characters but the newline, SEGSTAR is "[^/]*", and "$" is the end of s
\* or the place before a newline that ends s.
RECURSIVE ReMatch(_, _)
ReMatch(regex, s) ==
    IF regex = <<>> THEN s = <<>> \/ s = <<"\n">>
    ELSE LET t == Head(regex)
             rest(k) == SubSeq(s, k + 1, Len(s))
         IN  CASE t = "DOTSTAR" ->
                    \E k \in 0..Len(s) :
                        /\ \A i \in 1..k : s[i] # "\n"
                        /\ ReMatch(Tail(regex), rest(k))
               [] t = "SEGSTAR" ->
                    \E k \in 0..Len(s) :
                        /\ \A i \in 1..k : s[i] # "/"
                        /\ ReMatch(Tail(regex), rest(k))
               [] OTHER ->
                    /\ s # <<>>
                    /\ Head(s) = t
                    /\ ReMatch(Tail(regex), Tail(s))

_match_glob(path, pattern) == ReMatch(GlobToRegex(pattern), path)

(***************************************************************************)
(* PolicyConfig.                                                           *)
(***************************************************************************)
AutoSpawnModes == {"off", "queue", "constrained", "trusted", "unrestricted"}

\* The permission scopes the model draws from.
Permissions == {"files.read", "files.write", "system.shell", "agent.message"}

\* permission.startswith("files.")
StartsWithFiles(permission) ==
    permission \in {"files.read", "files.write", "files.delete"}

\* PolicyConfig(): the policy a connection starts with.
DefaultPolicy ==
    [ auto_spawn_mode           |-> "off",
      max_concurrent_sub_agents |-> 5,
      max_sub_agents_per_hour   |-> 10,
      permissions_allowed       |-> {"files.read", "agent.message"},
      permissions_forbidden     |-> {"system.shell", "files.delete", "agent.spawn"},
      permissions_ask           |-> {"files.write", "process.execute", "network.fetch"},
      allowed_paths             |-> <<>>,
      forbidden_paths           |->
          << <<"~", "/", ".", "s", "s", "h", "/", "*", "*">>,
             <<"~", "/", ".", "a", "w", "s", "/", "*", "*">>,
             <<"~", "/", ".", "c", "o", "n", "f", "i", "g", "/",
               "g", "c", "l", "o", "u", "d", "/", "*", "*">>,
             <<"*", "*", "/", ".", "e", "n", "v">>,
             <<"*", "*", "/", "*", ".", "p", "e", "m">>,
             <<"*", "*", "/", "*", ".", "k", "e", "y">>,
             <<"*", "*", "/", "s", "e", "c", "r", "e", "t", "s", "/", "*", "*">> >>,
      allowed_commands          |-> {},
      check_in_hours            |-> 4 ]

PolicyFields == DOMAIN DefaultPolicy


(***************************************************************************)
(* Messages.                                                               *)
(***************************************************************************)
\* Identifiers: a request's uuid is its number (1, 2, ...); None is 0.
NoneKey == 0
Keys == 0..MaxRequests
\* An inbound payload that has no request_id field.
NoRid == -1
\* The id send() gives a fire-and-forget message: a uuid nothing refers to.
FreshId == -1

\* An outbound message: its type, its id, its payload's request_id (0 when
\* the payload has none) and, for a confirmation_request, its danger_level.
OutMsg(type, id, request_id, danger) ==
    [type |-> type, id |-> id, request_id |-> request_id, danger |-> danger]

\* The partial PolicyConfig records a policy payload may carry, by number.
PolicyPayloads ==
    << [permissions_forbidden |-> {}, allowed_commands |-> {"ls"}],
       [permissions_forbidden |-> {"system.shell", "files.write"}],
       [permissions_allowed |-> {"files.write", "system.shell"},
        allowed_paths |-> << <<"/", "w", "/", "*">> >>],
       [permissions_ask |-> {}, color |-> "blue"] >>

\* An inbound message, as json.loads returns it.  shape is what data holds
\* under "payload": a record, nothing ("absent") or a number/null
\* ("scalar"); rid, action, decision are the payload's request_id, action
\* and decision ("-" and NoRid when missing); data numbers the policy
\* fields it carries (0: none).
InMsg(type, shape, rid, action, decision, data) ==
    [type |-> type, shape |-> shape, rid |-> rid, action |-> action,
     decision |-> decision, data |-> data]

\* Python's None, where a message is expected.
NoMsg == InMsg("-", "-", NoRid, "-", "-", 0)

\* A Future of the correlation table.
NoFuture == [state |-> "none", result |-> NoMsg]
PendingFuture == [state |-> "pending", result |-> NoMsg]

VARIABLES
    \* SpawnConnection
    policy,         \* self.policy
    handlers,       \* the keys of self._handlers
    pending,        \* self._pending_responses: key -> request number (0: no entry)
    connected,      \* the websocket is open
    inbox,          \* messages received and not yet read by the dispatch loop
    loop,           \* _message_loop: "not_started", "running", "handling" (suspended
                    \* in an awaited handler), "crashed" (an exception ended it)
                    \* or "closed"
    lastDispatch,   \* what the dispatch loop did with the last message it read
    fut,            \* the Future of each request: state and result
    nreq,           \* requests registered so far
    \* callers
    pc,             \* where each caller is
    kont,           \* where a caller goes on when _request returns
    call,           \* the operation a caller runs and its arguments
    req,            \* the request a caller last registered
    key,            \* _request's local request_id: the key it registered under
    resp,           \* what _request returned to the caller
    ret,            \* what the operation returned
    subret,         \* the handle the operation returned (0: none)
    sent,           \* the messages the caller's operation has sent
    executed,       \* the operation ran the guarded step
    \* agents
    active,         \* agents._active
    spawned_this_hour,  \* agents._spawned_this_hour
    substatus,      \* SubAgent.status of every handle created
    nsub,           \* handles created so far
    spawning_paused,    \* agents._spawning_paused (FALSE while it is not set)
    \* checkin
    now,            \* datetime.now(), in hours
    last_checkin,   \* checkin._last_checkin
    session_start   \* checkin._session_start

connVars == <<policy, handlers, pending, connected, inbox, loop, lastDispatch, fut, nreq>>
callerVars == <<pc, kont, call, req, key, resp, ret, subret, sent, executed>>
agentVars == <<active, spawned_this_hour, substatus, nsub, spawning_paused>>
checkinVars == <<now, last_checkin, session_start>>
vars == <<connVars, callerVars, agentVars, checkinVars>>

\* Python's None, where a datetime is expected.
NoTime == -1

\* An operation and its arguments; i is the position of kill_all's iterator.
NoCall ==
    [op |-> "-", danger |-> "-", path |-> <<>>, perms |-> {}, notify |-> FALSE,
     handle |-> 0, i |-> 0]

\* SpawnConnection.__init__, the module's class attributes, and callers that
\* have not called anything yet; connect() has opened the websocket and
\* started the dispatch loop.
InitWith(pol) ==
    /\ policy = pol
    /\ handlers = {}
    /\ pending = [k \in Keys |-> 0]
    /\ connected = TRUE
    /\ inbox = <<>>
    /\ loop = "running"
    /\ lastDispatch = "-"
    /\ fut = [q \in Requests |-> NoFuture]
    /\ nreq = 0
    /\ pc = [c \in Callers |-> "idle"]
    /\ kont = [c \in Callers |-> "-"]
    /\ call = [c \in Callers |-> NoCall]
    /\ req = [c \in Callers |-> 0]
    /\ key = [c \in Callers |-> NoRid]
    /\ resp = [c \in Callers |-> NoMsg]
    /\ ret = [c \in Callers |-> "-"]
    /\ subret = [c \in Callers |-> 0]
    /\ sent = [c \in Callers |-> <<>>]
    /\ executed = [c \in Callers |-> FALSE]
    /\ active = <<>>
    /\ spawned_this_hour = 0
    /\ substatus = [h \in Handles |-> "none"]
    /\ nsub = 0
    /\ spawning_paused = FALSE
    /\ now = 0
    /\ last_checkin = NoTime
    /\ session_start = NoTime

Init == InitWith(DefaultPolicy)

(***************************************************************************)
(* policy: the decision functions over get_policy().                       *)
(***************************************************************************)
is_path_allowed(path) ==
    \E i \in DOMAIN policy.allowed_paths :
        _match_glob(expanduser(path), expanduser(policy.allowed_paths[i]))

is_path_forbidden(path) ==
    \E i \in DOMAIN policy.forbidden_paths :
        _match_glob(expanduser(path), expanduser(policy.forbidden_paths[i]))

\* The allowed set is looked at first, the forbidden set not at all.
is_allowed_allow_first(permission, target) ==
    IF permission \in policy.permissions_allowed
    THEN IF StartsWithFiles(permission) /\ target # <<>>
         THEN is_path_allowed(target) /\ ~is_path_forbidden(target)
         ELSE TRUE
    ELSE FALSE

\* target is a path, or <<>> for None (and for "", which is as falsy).
is_allowed(permission, target) ==
    IF permission \in policy.permissions_forbidden THEN FALSE
    ELSE IF permission \in policy.permissions_allowed
         THEN IF StartsWithFiles(permission) /\ target # <<>>
              THEN is_path_allowed(target) /\ ~is_path_forbidden(target)
              ELSE TRUE
    ELSE FALSE

\* A permission that is also in the allowed set does not count as forbidden.
is_forbidden_unless_allowed(permission) ==
    /\ permission \in policy.permissions_forbidden
    /\ permission \notin policy.permissions_allowed

is_forbidden(permission) == permission \in policy.permissions_forbidden

requires_approval(permission) == permission \in policy.permissions_ask

\* cmd_name is command.split()[0], "" for the empty command.
is_command_allowed(cmd_name) == cmd_name \in policy.allowed_commands

\* (mutant) the loop over data.items() is left after its first key: the
\* other keys are set later, or never.
UpdatedPolicy_first_key(pol, data) ==
    IF DOMAIN data \cap DOMAIN pol = {} THEN pol
    ELSE LET first == CHOOSE k \in DOMAIN data \cap DOMAIN pol : TRUE
         IN  [pol EXCEPT ![first] = data[first]]

\* _update_policy: every key of data that PolicyConfig has is set.
UpdatedPolicy(pol, data) ==
    [k \in DOMAIN pol |-> IF k \in DOMAIN data THEN data[k] ELSE pol[k]]


(***************************************************************************)
(* asyncio.Future, as the dispatch loop and wait_for use it.               *)
(***************************************************************************)
\* (mutant) set_result that overwrites a result already set.
set_result_overwrites(f, data) == [state |-> "done", result |-> data]

\* Future.set_result: a pending future takes the result; on a future that
\* is done or cancelled it raises InvalidStateError and changes nothing.
set_result(f, data) ==
    IF f.state = "pending" THEN [state |-> "done", result |-> data] ELSE f

set_result_raises(f) == f.state # "pending"

\* Future.cancel: a pending future becomes cancelled.
cancel(f) ==
    IF f.state = "pending" THEN [state |-> "cancelled", result |-> NoMsg] ELSE f

(***************************************************************************)
(* SpawnConnection._message_loop: one message per step.                    *)
(***************************************************************************)
\* A message without a payload makes the loop body raise, whatever its type.
Route_needs_payload(data) ==
    IF data.shape # "record" THEN "type_error"
    ELSE IF data.rid # NoRid /\ pending[data.rid] # 0
         THEN IF set_result_raises(fut[pending[data.rid]])
              THEN "invalid_state"
              ELSE "resolved"
    ELSE IF data.type \in handlers THEN "handler"
    ELSE IF data.type = "policy_update" THEN "policy"
    ELSE IF data.type = "message"
         THEN IF "on_message" \in handlers THEN "on_message" ELSE "dropped"
    ELSE "unhandled"

\* What the loop body does with message data: "unhandled" is the end of the
\* if/elif chain, no branch taken.
Route(data) ==
    IF data.shape = "scalar" THEN "type_error"
    ELSE IF data.shape = "record" /\ data.rid # NoRid /\ pending[data.rid] # 0
         THEN IF set_result_raises(fut[pending[data.rid]])
              THEN "invalid_state"
              ELSE "resolved"
    ELSE IF data.type \in handlers THEN "handler"
    ELSE IF data.type = "policy_update"
         THEN IF data.shape = "absent" THEN "key_error" ELSE "policy"
    ELSE IF data.type = "message"
         THEN IF "on_message" \in handlers
              THEN IF data.shape = "absent" THEN "key_error" ELSE "on_message"
              ELSE "dropped"
    ELSE "unhandled"

\* The routes on which the loop body raises: nothing catches it, and the
\* task that runs the loop ends.
Raises(route) == route \in {"type_error", "invalid_state", "key_error"}

\* The payload's fields, for _update_policy.
PayloadData(data) ==
    IF data.data = 0 THEN [x \in {} |-> 0] ELSE PolicyPayloads[data.data]

\* A handler is the application's coroutine: it returns, or it raises, and
\* then so does the loop body.
HandlerRaises(route) ==
    IF route \in {"handler", "on_message"} THEN BOOLEAN ELSE {FALSE}

\* A handler may suspend: the loop body waits in `await` until it is done.
HandlerSuspends(route) ==
    IF route \in {"handler", "on_message"} THEN BOOLEAN ELSE {FALSE}

\* (mutant) the loop takes the message that arrived last.
NextMessage_latest(queue) == queue[Len(queue)]

\* `async for message in self.ws`: the message that arrived first.
NextMessage(queue) == Head(queue)

MessageLoop ==
    /\ loop = "running"
    /\ inbox # <<>>
    /\ LET data == NextMessage(inbox)
           route == Route(data)
       IN  /\ inbox' = Tail(inbox)
           /\ lastDispatch' = route
           /\ \E raised \in HandlerRaises(route), suspended \in HandlerSuspends(route) :
                  loop' = IF Raises(route) THEN "crashed"
                          ELSE IF suspended THEN "handling"
                          ELSE IF raised THEN "crashed"
                          ELSE "running"
           /\ fut' = IF route \in {"resolved", "invalid_state"}
                     THEN [fut EXCEPT ![pending[data.rid]] = set_result(@, data)]
                     ELSE fut
           /\ policy' = IF route = "policy"
                        THEN UpdatedPolicy(policy, PayloadData(data))
                        ELSE policy
    /\ UNCHANGED <<handlers, pending, connected, nreq, callerVars, agentVars, checkinVars>>

\* The awaited handler finishes: it returns, and the loop goes on to the
\* next message, or it raises.
HandlerReturns ==
    /\ loop = "handling"
    /\ \E raised \in BOOLEAN : loop' = IF raised THEN "crashed" ELSE "running"
    /\ UNCHANGED <<policy, handlers, pending, connected, inbox, lastDispatch, fut, nreq,
                   callerVars, agentVars, checkinVars>>

\* SpawnConnection.on(event, handler)
on(event) ==
    /\ handlers' = handlers \cup {event}
    /\ UNCHANGED <<policy, pending, connected, inbox, loop, lastDispatch, fut, nreq,
                   callerVars, agentVars, checkinVars>>

\* The websocket closes: sends raise ConnectionClosed from now on, and the
\* loop's `async for` ends once it has read what was received.
Disconnect ==
    /\ connected
    /\ connected' = FALSE
    /\ UNCHANGED <<policy, handlers, pending, inbox, loop, lastDispatch, fut, nreq,
                   callerVars, agentVars, checkinVars>>

LoopEnds ==
    /\ loop = "running"
    /\ ~connected
    /\ inbox = <<>>
    /\ loop' = "closed"
    /\ UNCHANGED <<policy, handlers, pending, connected, inbox, lastDispatch, fut, nreq,
                   callerVars, agentVars, checkinVars>>

\* The relay delivers message m: the websocket keeps it until the loop
\* reads it, also when the loop has not been started yet.  What arrives
\* after the dispatch loop has ended is never read, and is left out.
Receive(m) ==
    /\ connected
    /\ loop \in {"not_started", "running", "handling"}
    /\ Len(inbox) < MaxInbox
    /\ inbox' = Append(inbox, m)
    /\ UNCHANGED <<policy, handlers, pending, connected, loop, lastDispatch, fut, nreq,
                   callerVars, agentVars, checkinVars>>

(***************************************************************************)
(* SpawnConnection._request.                                               *)
(*                                                                         *)
(* A caller suspended in _request is at "await"; kont[c] names the code    *)
(* that runs when _request returns.  That code runs in the same step as    *)
(* the return, up to the caller's next await: it is given the value        *)
(* returned and the correlation table as the `finally` left it.            *)
(***************************************************************************)
\* request_id = payload.request_id or id: None when the message has neither.
RequestKey(message) ==
    IF message.request_id # 0 THEN message.request_id ELSE message.id

\* ws.send raises when the websocket is closed.
SendRaises == ~connected

\* The operation of caller c ends: it returns value (and handle), or raises.
Ends(c, how, value, handle, log, ran) ==
    /\ pc' = [pc EXCEPT ![c] = how]
    /\ kont' = [kont EXCEPT ![c] = "-"]
    /\ ret' = [ret EXCEPT ![c] = value]
    /\ subret' = [subret EXCEPT ![c] = handle]
    /\ sent' = [sent EXCEPT ![c] = log]
    /\ executed' = [executed EXCEPT ![c] = ran]

\* _request up to its await: the future is created and registered under the
\* message's key, and the message is sent.  The send is outside the try, so
\* when it raises, the exception leaves _request, and the operation, with the
\* entry in place.  table is the correlation table before, log what the
\* caller's operation has sent so far, k the code that runs on return.
Request(c, message, table, log, k) ==
    /\ nreq' = nreq + 1
    /\ fut' = [fut EXCEPT ![nreq + 1] = PendingFuture]
    /\ pending' = [table EXCEPT ![RequestKey(message)] = nreq + 1]
    /\ req' = [req EXCEPT ![c] = nreq + 1]
    /\ key' = [key EXCEPT ![c] = RequestKey(message)]
    /\ IF SendRaises
       THEN Ends(c, "raised", "ConnectionClosed", 0, log, executed[c])
       ELSE /\ pc' = [pc EXCEPT ![c] = "await"]
            /\ kont' = [kont EXCEPT ![c] = k]
            /\ sent' = [sent EXCEPT ![c] = Append(log, message)]
            /\ UNCHANGED <<ret, subret, executed>>

\* The operation ends without a further request.
Returns(c, how, value, handle, table, log, ran) ==
    /\ Ends(c, how, value, handle, log, ran)
    /\ pending' = table
    /\ UNCHANGED <<fut, nreq, req, key>>

\* A fire-and-forget send of a message of the given type.
Notice(type) == OutMsg(type, FreshId, 0, "-")

\* The operation goes on to the step named label without a further request.
Goes(c, label, table, log, ran) ==
    /\ pc' = [pc EXCEPT ![c] = label]
    /\ kont' = [kont EXCEPT ![c] = "-"]
    /\ sent' = [sent EXCEPT ![c] = log]
    /\ executed' = [executed EXCEPT ![c] = ran]
    /\ pending' = table
    /\ UNCHANGED <<ret, subret, fut, nreq, req, key>>

\* The operation sends a notice and returns None, unless the send raises.
SendsAndReturns(c, type, table, log, ran) ==
    IF SendRaises
    THEN Returns(c, "raised", "ConnectionClosed", 0, table, log, ran)
    ELSE Returns(c, "done", "None", 0, table, Append(log, Notice(type)), ran)

\* Python's values, as the model writes what an operation returned.
Bool(b) == IF b THEN "True" ELSE "False"

(***************************************************************************)
(* approval.confirm.                                                       *)
(***************************************************************************)
DangerLevels == {"low", "medium", "high", "critical"}

\* The message approval.confirm sends for request number q.
ConfirmationRequest(q, danger) == OutMsg("confirmation_request", q, q, danger)

\* (mutant) anything but an explicit cancel counts as a confirmation.
ConfirmResult_unless_cancel(response) ==
    response # NoMsg /\ response.action # "cancel"

\* `if response: return payload.get("action") == "confirm"`, else False.
ConfirmResult(response) ==
    response # NoMsg /\ response.action = "confirm"

\* Caller c makes the c-th call: it has not called yet, and the callers
\* before it have.
CanStart(c) ==
    /\ pc[c] = "idle"
    /\ \A b \in Callers : b < c => pc[b] # "idle"

confirm(c, danger) ==
    /\ CanStart(c)
    /\ call' = [call EXCEPT ![c] = [NoCall EXCEPT !.op = "confirm", !.danger = danger]]
    /\ Request(c, ConfirmationRequest(nreq + 1, danger), pending, <<>>, "confirm")
    /\ UNCHANGED <<policy, handlers, connected, inbox, loop, lastDispatch, resp,
                   agentVars, checkinVars>>

\* approval.confirm after its _request returned response.
confirm_returns(c, response, table) ==
    /\ Returns(c, "done", Bool(ConfirmResult(response)), 0, table, sent[c], FALSE)
    /\ UNCHANGED <<policy, loop, call, agentVars, checkinVars>>

(***************************************************************************)
(* The policy's queries, called on their own.                              *)
(***************************************************************************)
\* policy.is_allowed(permission, target)
call_is_allowed(c, permission, target) ==
    /\ CanStart(c)
    /\ call' = [call EXCEPT ![c] =
                   [NoCall EXCEPT !.op = "is_allowed", !.perms = {permission},
                                  !.path = target]]
    /\ Returns(c, "done", Bool(is_allowed(permission, target)), 0, pending, <<>>,
               FALSE)
    /\ UNCHANGED <<policy, handlers, connected, inbox, loop, lastDispatch, resp,
                   agentVars, checkinVars>>

\* policy.is_path_forbidden(path)
call_is_path_forbidden(c, path) ==
    /\ CanStart(c)
    /\ call' = [call EXCEPT ![c] =
                   [NoCall EXCEPT !.op = "is_path_forbidden", !.path = path]]
    /\ Returns(c, "done", Bool(is_path_forbidden(path)), 0, pending, <<>>, FALSE)
    /\ UNCHANGED <<policy, handlers, connected, inbox, loop, lastDispatch, resp,
                   agentVars, checkinVars>>

(***************************************************************************)
(* agents: the sub-agent registry.                                         *)
(*                                                                         *)
(* A requested permission list is the set of its scopes.                   *)
(***************************************************************************)
\* The hourly count is not looked at.
can_spawn_concurrency_only ==
    IF policy.auto_spawn_mode = "off" THEN TRUE
    ELSE Len(active) < policy.max_concurrent_sub_agents

can_spawn ==
    IF policy.auto_spawn_mode = "off" THEN TRUE
    ELSE IF Len(active) >= policy.max_concurrent_sub_agents THEN FALSE
    ELSE IF spawned_this_hour >= policy.max_sub_agents_per_hour THEN FALSE
    ELSE TRUE

\* The ask set vetoes in trusted mode as it does in constrained mode.
would_auto_approve_ask_vetoes(permissions) ==
    IF policy.auto_spawn_mode \in {"off", "queue"} THEN FALSE
    ELSE IF policy.auto_spawn_mode = "unrestricted" THEN TRUE
    ELSE ~ \E scope \in permissions :
              \/ scope \in policy.permissions_forbidden
              \/ scope \in policy.permissions_ask

would_auto_approve(permissions) ==
    IF policy.auto_spawn_mode \in {"off", "queue"} THEN FALSE
    ELSE IF policy.auto_spawn_mode = "unrestricted" THEN TRUE
    ELSE ~ \E scope \in permissions :
              \/ scope \in policy.permissions_forbidden
              \/ /\ policy.auto_spawn_mode = "constrained"
                 /\ scope \in policy.permissions_ask

\* SubAgent(id, name, role): a new handle, its status "online" by default.
NewSubAgent == nsub + 1

\* cls._active.append(sub); cls._spawned_this_hour += 1
Registers(sub) ==
    /\ nsub' = sub
    /\ substatus' = [substatus EXCEPT ![sub] = "online"]
    /\ active' = Append(active, sub)
    /\ spawned_this_hour' = spawned_this_hour + 1
    /\ UNCHANGED <<spawning_paused, checkinVars>>

\* agents.would_auto_approve(permissions), called on its own.
call_would_auto_approve(c, permissions) ==
    /\ CanStart(c)
    /\ call' = [call EXCEPT ![c] =
                   [NoCall EXCEPT !.op = "would_auto_approve",
                                  !.perms = permissions]]
    /\ Returns(c, "done", Bool(would_auto_approve(permissions)), 0, pending,
               <<>>, FALSE)
    /\ UNCHANGED <<policy, handlers, connected, inbox, loop, lastDispatch, resp,
                   agentVars, checkinVars>>

\* agents.can_spawn(), called on its own.
call_can_spawn(c) ==
    /\ CanStart(c)
    /\ call' = [call EXCEPT ![c] = [NoCall EXCEPT !.op = "can_spawn"]]
    /\ Returns(c, "done", Bool(can_spawn), 0, pending, <<>>, FALSE)
    /\ UNCHANGED <<policy, handlers, connected, inbox, loop, lastDispatch, resp,
                   agentVars, checkinVars>>

\* agents.pause_spawning(): the flag is set, and nothing reads it.
pause_spawning(c) ==
    /\ CanStart(c)
    /\ call' = [call EXCEPT ![c] = [NoCall EXCEPT !.op = "pause_spawning"]]
    /\ spawning_paused' = TRUE
    /\ Returns(c, "done", "None", 0, pending, <<>>, FALSE)
    /\ UNCHANGED <<policy, handlers, connected, inbox, loop, lastDispatch, resp,
                   active, spawned_this_hour, substatus, nsub, checkinVars>>

\* The message agents.request_spawn sends for request number q.
SpawnRequest(q) == OutMsg("agent_spawn_request", q, q, "-")

request_spawn(c, permissions) ==
    /\ CanStart(c)
    /\ call' = [call EXCEPT ![c] =
                   [NoCall EXCEPT !.op = "request_spawn", !.perms = permissions]]
    /\ Request(c, SpawnRequest(nreq + 1), pending, <<>>, "request_spawn")
    /\ UNCHANGED <<policy, handlers, connected, inbox, loop, lastDispatch, resp,
                   agentVars, checkinVars>>

\* Any reply counts as an approval.
Approved_any_reply(response) == response # NoMsg

\* `response and response.get("payload", {}).get("decision") == "approved"`
Approved(response) ==
    response # NoMsg /\ response.decision = "approved"

\* agents.request_spawn after its _request returned response.
request_spawn_returns(c, response, table) ==
    /\ IF Approved(response)
       THEN /\ Registers(NewSubAgent)
            /\ Returns(c, "done", "SubAgent", NewSubAgent, table, sent[c], FALSE)
       ELSE /\ Returns(c, "done", "None", 0, table, sent[c], FALSE)
            /\ UNCHANGED <<agentVars, checkinVars>>
    /\ UNCHANGED <<policy, loop, call>>

\* Only the mode is looked at, not the requested permissions.
MaySpawn_mode_only(permissions) ==
    policy.auto_spawn_mode \notin {"off", "queue"}

\* The check agents.spawn makes before anything else.
MaySpawn(permissions) == would_auto_approve(permissions)

\* agents.spawn up to its first send.
spawn(c, permissions, notify) ==
    /\ CanStart(c)
    /\ call' = [call EXCEPT ![c] =
                   [NoCall EXCEPT !.op = "spawn", !.perms = permissions,
                                  !.notify = notify]]
    /\ IF ~MaySpawn(permissions)
       THEN Returns(c, "raised", "PermissionError", 0, pending, <<>>, FALSE)
       ELSE IF SendRaises
       THEN Returns(c, "raised", "ConnectionClosed", 0, pending, <<>>, FALSE)
       ELSE /\ pc' = [pc EXCEPT ![c] = "spawn_sent"]
            /\ sent' = [sent EXCEPT ![c] = <<Notice("sub_agent_spawn")>>]
            /\ UNCHANGED <<kont, ret, subret, executed, pending, fut, nreq, req, key>>
    /\ UNCHANGED <<policy, handlers, connected, inbox, loop, lastDispatch, resp,
                   agentVars, checkinVars>>

\* agents.spawn after the spawn notice was sent: the handle is created and
\* registered, and the notification, if any, is sent.
spawn_sent(c) ==
    /\ pc[c] = "spawn_sent"
    /\ Registers(NewSubAgent)
    /\ IF ~call[c].notify
       THEN Returns(c, "done", "SubAgent", NewSubAgent, pending, sent[c], FALSE)
       ELSE IF SendRaises
       THEN Returns(c, "raised", "ConnectionClosed", 0, pending, sent[c], FALSE)
       ELSE Returns(c, "done", "SubAgent", NewSubAgent, pending,
                    Append(sent[c], Notice("notification")), FALSE)
    /\ UNCHANGED <<policy, handlers, connected, inbox, loop, lastDispatch, call, resp>>

\* SubAgent.terminate, as a step of caller c: it sends the notice.
Terminates(c, how, log) ==
    IF SendRaises
    THEN Returns(c, "raised", "ConnectionClosed", 0, pending, log, FALSE)
    ELSE /\ pc' = [pc EXCEPT ![c] = how]
         /\ sent' = [sent EXCEPT ![c] = Append(log, Notice("sub_agent_terminate"))]
         /\ ret' = [ret EXCEPT ![c] = IF how = "done" THEN "None" ELSE "-"]
         /\ UNCHANGED <<kont, subret, executed, pending, fut, nreq, req, key>>

\* sub.terminate() on a handle the caller holds.
terminate(c, sub) ==
    /\ CanStart(c)
    /\ substatus[sub] # "none"
    /\ call' = [call EXCEPT ![c] = [NoCall EXCEPT !.op = "terminate", !.handle = sub]]
    /\ Terminates(c, "done", <<>>)
    /\ UNCHANGED <<policy, handlers, connected, inbox, loop, lastDispatch, resp,
                   agentVars, checkinVars>>

\* One turn of kill_all's `for sub in cls._active`, the iterator at position
\* i: the next handle is terminated, or the loop is over and the list is
\* cleared.
KillAllTurn(c, i, log) ==
    IF i < Len(active)
    THEN /\ Terminates(c, "kill_all", log)
         /\ UNCHANGED <<agentVars, checkinVars>>
    ELSE /\ Returns(c, "done", "None", 0, pending, log, FALSE)
         /\ active' = <<>>
         /\ UNCHANGED <<spawned_this_hour, substatus, nsub, spawning_paused,
                        checkinVars>>

kill_all(c) ==
    /\ CanStart(c)
    /\ call' = [call EXCEPT ![c] = [NoCall EXCEPT !.op = "kill_all", !.i = 1]]
    /\ KillAllTurn(c, 0, <<>>)
    /\ UNCHANGED <<policy, handlers, connected, inbox, loop, lastDispatch, resp>>

kill_all_next(c) ==
    /\ pc[c] = "kill_all"
    /\ call' = [call EXCEPT ![c].i = @ + 1]
    /\ KillAllTurn(c, call[c].i, sent[c])
    /\ UNCHANGED <<policy, handlers, connected, inbox, loop, lastDispatch, resp>>

(***************************************************************************)
(* checkin.  Time is counted in hours.                                     *)
(***************************************************************************)
\* The clock moves on by an hour.
Tick ==
    /\ now < MaxHours
    /\ now' = now + 1
    /\ UNCHANGED <<connVars, callerVars, agentVars, last_checkin, session_start>>

\* A check-in is due only after more than check_in_hours.
CheckinDue_strict == now - last_checkin > policy.check_in_hours

\* hours_since_checkin >= cfg.check_in_hours
CheckinDue == now - last_checkin >= policy.check_in_hours

\* checkin.is_required()
is_required(c) ==
    /\ CanStart(c)
    /\ call' = [call EXCEPT ![c] = [NoCall EXCEPT !.op = "is_required"]]
    /\ IF session_start = NoTime
       THEN /\ session_start' = now
            /\ last_checkin' = now
            /\ Returns(c, "done", "False", 0, pending, <<>>, FALSE)
       ELSE /\ Returns(c, "done", Bool(CheckinDue), 0, pending, <<>>, FALSE)
            /\ UNCHANGED <<last_checkin, session_start>>
    /\ UNCHANGED <<policy, handlers, connected, inbox, loop, lastDispatch, resp,
                   agentVars, now>>

\* The message checkin.wait_for_response passes to _request: it has no id
\* and its payload no request_id.
CheckinRequest == OutMsg("checkin_request", NoneKey, NoneKey, "-")

\* checkin.wait_for_response up to the await in _request.
wait_for_response(c) ==
    /\ CanStart(c)
    /\ call' = [call EXCEPT ![c] = [NoCall EXCEPT !.op = "wait_for_response"]]
    /\ Request(c, CheckinRequest, pending, <<>>, "wait_for_response")
    /\ UNCHANGED <<policy, handlers, connected, inbox, loop, lastDispatch, resp,
                   agentVars, checkinVars>>

\* Without a reply the decision is to go on.
CheckinDecision_continue(response) ==
    IF response # NoMsg THEN response.action ELSE "continue"

\* What wait_for_response returns: the reply's payload, which the model
\* knows by its action, or {"action": "pause"}.
CheckinDecision(response) ==
    IF response # NoMsg THEN response.action ELSE "pause"

\* checkin.wait_for_response after its _request returned response.
wait_for_response_returns(c, response, table) ==
    /\ last_checkin' = IF response # NoMsg THEN now ELSE last_checkin
    /\ Returns(c, "done", CheckinDecision(response), 0, table, sent[c], FALSE)
    /\ UNCHANGED <<policy, loop, call, agentVars, now, session_start>>

(***************************************************************************)
(* The example integration's step handlers.  A step's execute() is the     *)
(* bot's own code: the model records that it ran.                          *)
(***************************************************************************)
\* handle_shell_command up to its first await: the denial, or the
\* confirmation request.
handle_shell_command(c, cmd_name) ==
    /\ CanStart(c)
    /\ call' = [call EXCEPT ![c] =
                   [NoCall EXCEPT !.op = "handle_shell_command",
                                  !.danger = IF is_command_allowed(cmd_name)
                                             THEN "medium" ELSE "high"]]
    /\ IF is_forbidden("system.shell")
       THEN SendsAndReturns(c, "error", pending, <<>>, FALSE)
       ELSE Request(c, ConfirmationRequest(nreq + 1, call'[c].danger), pending,
                    <<>>, "handle_shell_command")
    /\ UNCHANGED <<policy, handlers, connected, inbox, loop, lastDispatch, resp,
                   agentVars, checkinVars>>

\* handle_shell_command after approval.confirm returned: status.set and then
\* the step, or the "Skipped" text.
shell_confirm_returns(c, response, table) ==
    /\ IF ConfirmResult(response)
       THEN IF SendRaises
            THEN Returns(c, "raised", "ConnectionClosed", 0, table, sent[c], FALSE)
            ELSE Goes(c, "execute", table,
                      Append(sent[c], Notice("status_update")), FALSE)
       ELSE SendsAndReturns(c, "text", table, sent[c], FALSE)
    /\ UNCHANGED <<policy, loop, call, agentVars, checkinVars>>

\* The write is made without looking at the ask set.
WriteChecked_unasked(c, table, log) == Goes(c, "report", table, log, TRUE)

\* handle_file_write from its second check on: the confirmation request for
\* a permission of the ask set, or the write.
WriteChecked(c, table, log) ==
    IF requires_approval("files.write")
    THEN Request(c, ConfirmationRequest(nreq + 1, "low"), table, log,
                 "write_ask")
    ELSE Goes(c, "report", table, log, TRUE)

\* handle_file_write up to its first await.
handle_file_write(c, path) ==
    /\ CanStart(c)
    /\ call' = [call EXCEPT ![c] =
                   [NoCall EXCEPT !.op = "handle_file_write", !.path = path]]
    /\ IF is_path_forbidden(path)
       THEN SendsAndReturns(c, "error", pending, <<>>, FALSE)
       ELSE IF ~is_path_allowed(path)
       THEN Request(c, ConfirmationRequest(nreq + 1, "medium"), pending, <<>>,
                    "write_path")
       ELSE WriteChecked(c, pending, <<>>)
    /\ UNCHANGED <<policy, handlers, connected, inbox, loop, lastDispatch, resp,
                   agentVars, checkinVars>>

\* handle_file_write after the confirmation for a path outside the allowed
\* folders returned.
write_path_returns(c, response, table) ==
    /\ IF ConfirmResult(response)
       THEN WriteChecked(c, table, sent[c])
       ELSE SendsAndReturns(c, "text", table, sent[c], FALSE)
    /\ UNCHANGED <<policy, loop, call, agentVars, checkinVars>>

\* handle_file_write after the confirmation for files.write returned.
write_ask_returns(c, response, table) ==
    /\ IF ConfirmResult(response)
       THEN Goes(c, "report", table, sent[c], TRUE)
       ELSE Returns(c, "done", "None", 0, table, sent[c], FALSE)
    /\ UNCHANGED <<policy, loop, call, agentVars, checkinVars>>

\* handle_shell_command after status.set: step.execute() runs.
step_execute(c) ==
    /\ pc[c] = "execute"
    /\ Goes(c, "report", pending, sent[c], TRUE)
    /\ UNCHANGED <<policy, handlers, connected, inbox, loop, lastDispatch, call,
                   resp, agentVars, checkinVars>>

\* After step.execute(): the result card of a shell step, the "Wrote" text of
\* a write step.
step_reports(c) ==
    /\ pc[c] = "report"
    /\ SendsAndReturns(c, IF call[c].op = "handle_shell_command"
                          THEN "card" ELSE "text",
                       pending, sent[c], executed[c])
    /\ UNCHANGED <<policy, handlers, connected, inbox, loop, lastDispatch, call,
                   resp, agentVars, checkinVars>>

(***************************************************************************)
(* The example integration's decorator spawn_safe(permission): the wrapper *)
(* around a function func.                                                 *)
(***************************************************************************)
\* wrapper(): the forbidden set is looked at, then the ask set; the allowed
\* set is not.  `await func(...)` runs func, which returns in a later step.
spawn_safe(c, permission) ==
    /\ CanStart(c)
    /\ call' = [call EXCEPT ![c] =
                   [NoCall EXCEPT !.op = "spawn_safe", !.perms = {permission},
                                  !.danger = "medium"]]
    /\ IF is_forbidden(permission)
       THEN SendsAndReturns(c, "error", pending, <<>>, FALSE)
       ELSE IF requires_approval(permission)
            THEN Request(c, ConfirmationRequest(nreq + 1, "medium"), pending,
                         <<>>, "spawn_safe")
            ELSE Goes(c, "func", pending, <<>>, TRUE)
    /\ UNCHANGED <<policy, handlers, connected, inbox, loop, lastDispatch, resp,
                   agentVars, checkinVars>>

\* wrapper() after approval.confirm returned.
spawn_safe_confirm_returns(c, response, table) ==
    /\ IF ConfirmResult(response)
       THEN Goes(c, "func", table, sent[c], TRUE)
       ELSE Returns(c, "done", "None", 0, table, sent[c], FALSE)
    /\ UNCHANGED <<policy, loop, call, agentVars, checkinVars>>

\* func returns, and the wrapper returns its result.
func_returns(c) ==
    /\ pc[c] = "func"
    /\ Returns(c, "done", "result", 0, pending, sent[c], executed[c])
    /\ UNCHANGED <<policy, handlers, connected, inbox, loop, lastDispatch, call,
                   resp, agentVars, checkinVars>>

(***************************************************************************)
(* SpawnConnection.connect and _fetch_policy.                              *)
(***************************************************************************)
\* The get_policy message: it has an id and an empty payload.
GetPolicy(q) == OutMsg("get_policy", q, 0, "-")

\* connect() up to `await websockets.connect(...)`, which opens the
\* websocket.  The application connects once, and again only after a
\* connect that failed.
connect(c) ==
    /\ CanStart(c)
    /\ ~connected
    /\ loop = "not_started"
    /\ \A d \in Callers : call[d].op = "connect" => pc[d] = "raised"
    /\ call' = [call EXCEPT ![c] = [NoCall EXCEPT !.op = "connect"]]
    /\ connected' = TRUE
    /\ Goes(c, "opened", pending, <<>>, FALSE)
    /\ UNCHANGED <<policy, handlers, inbox, loop, lastDispatch, resp, agentVars,
                   checkinVars>>

\* connect() goes on with the websocket open: `await self._fetch_policy()`
\* sends the get_policy request and waits for its reply.
fetch_policy(c) ==
    /\ pc[c] = "opened"
    /\ Request(c, GetPolicy(nreq + 1), pending, sent[c], "fetch_policy")
    /\ UNCHANGED <<policy, handlers, connected, inbox, loop, lastDispatch, call,
                   resp, agentVars, checkinVars>>

\* _fetch_policy after its _request returned response: a reply's payload is
\* applied to the policy; then connect() starts the dispatch loop and
\* returns.
fetch_policy_returns(c, response, table) ==
    /\ policy' = IF response # NoMsg
                 THEN UpdatedPolicy(policy, PayloadData(response))
                 ELSE policy
    /\ loop' = "running"
    /\ Returns(c, "done", "None", 0, table, sent[c], FALSE)
    /\ UNCHANGED <<call, agentVars, checkinVars>>

(***************************************************************************)
(* The return of _request.                                                 *)
(***************************************************************************)
\* The code after the await of _request, by the caller's continuation.
Resume(c, response, table) ==
    CASE kont[c] = "confirm" -> confirm_returns(c, response, table)
      [] kont[c] = "request_spawn" -> request_spawn_returns(c, response, table)
      [] kont[c] = "handle_shell_command" -> shell_confirm_returns(c, response, table)
      [] kont[c] = "write_path" -> write_path_returns(c, response, table)
      [] kont[c] = "write_ask" -> write_ask_returns(c, response, table)
      [] kont[c] = "wait_for_response" -> wait_for_response_returns(c, response, table)
      [] kont[c] = "spawn_safe" -> spawn_safe_confirm_returns(c, response, table)
      [] kont[c] = "fetch_policy" -> fetch_policy_returns(c, response, table)

\* `finally: self._pending_responses.pop(request_id, None)`
Popped(c) == [pending EXCEPT ![key[c]] = 0]

\* (mutant) the awaited result is lost.
Result_lost(f) == NoMsg

\* What wait_for returns for a future that is done.
Result(f) == f.result

\* wait_for resumes because the future is done: _request returns its result.
ReplyReturns(c) ==
    /\ pc[c] = "await"
    /\ fut[req[c]].state = "done"
    /\ resp' = [resp EXCEPT ![c] = Result(fut[req[c]])]
    /\ Resume(c, Result(fut[req[c]]), Popped(c))
    /\ UNCHANGED <<handlers, connected, inbox, lastDispatch>>

\* The deadline passes with the future pending: the timer wakes wait_for.
Deadline(c) ==
    /\ pc[c] = "await"
    /\ fut[req[c]].state = "pending"
    /\ pc' = [pc EXCEPT ![c] = "expired"]
    /\ UNCHANGED <<connVars, kont, call, req, key, resp, ret, subret, sent, executed,
                   agentVars, checkinVars>>

\* What wait_for gives when it resumes after the deadline and finds the
\* future done: the result (Python up to 3.11 returns fut.result()), or the
\* timeout (from 3.12 the timer has cancelled the waiting task all the same).
LateResults(f) == {Result(f), NoMsg}

\* wait_for resumes after the deadline.  A future that is still pending is
\* cancelled, and wait_for waits for the cancellation to be delivered.
DeadlineResumes(c) ==
    /\ pc[c] = "expired"
    /\ IF fut[req[c]].state = "done"
       THEN \E r \in LateResults(fut[req[c]]) :
                /\ resp' = [resp EXCEPT ![c] = r]
                /\ Resume(c, r, Popped(c))
       ELSE /\ fut' = [fut EXCEPT ![req[c]] = cancel(@)]
            /\ pc' = [pc EXCEPT ![c] = "cancelling"]
            /\ UNCHANGED <<policy, loop, pending, nreq, kont, call, req, key, resp,
                           ret, subret, sent, executed, agentVars, checkinVars>>
    /\ UNCHANGED <<handlers, connected, inbox, lastDispatch>>

\* wait_for raises TimeoutError: _request returns None.
TimeoutReturns(c) ==
    /\ pc[c] = "cancelling"
    /\ resp' = [resp EXCEPT ![c] = NoMsg]
    /\ Resume(c, NoMsg, Popped(c))
    /\ UNCHANGED <<handlers, connected, inbox, lastDispatch>>

RequestSteps(c) ==
    \/ ReplyReturns(c)
    \/ Deadline(c)
    \/ DeadlineResumes(c)
    \/ TimeoutReturns(c)

(***************************************************************************)
(* The correlation layer under approval.confirm: callers confirm, the      *)
(* relay answers the requests in the table, deadlines pass, the websocket  *)
(* may close.                                                              *)
(***************************************************************************)
\* The keys in the correlation table: the requests the relay may answer.
\* (An answer can still be late: its entry may be gone when it is read.)
Registered == {k \in Keys : pending[k] # 0}

ConfirmationReplies ==
    { InMsg("confirmation_response", "record", k, a, "-", 0) :
        k \in Registered, a \in {"confirm", "cancel", "-"} }

Next ==
    \/ \E c \in Callers : confirm(c, "medium")
    \/ \E c \in Callers : RequestSteps(c)
    \/ \E m \in ConfirmationReplies : Receive(m)
    \/ MessageLoop
    \/ LoopEnds
    \/ Disconnect

Spec == Init /\ [][Next]_vars

(***************************************************************************)
(* The sub-agent registry: callers ask whether they can spawn, pause       *)
(* spawning, spawn directly, terminate a handle and kill all, and the      *)
(* connection may close.  The policy is one the relay may have set, in any auto-spawn     *)
(* mode, and does not change.                                              *)
(***************************************************************************)
\* The caps, concurrent and hourly: either is the one reached first.
AgentCaps == {<<1, 2>>, <<2, 1>>}

AgentPolicies ==
    { [DefaultPolicy EXCEPT !.auto_spawn_mode = m,
                            !.max_concurrent_sub_agents = caps[1],
                            !.max_sub_agents_per_hour = caps[2]] :
        m \in AutoSpawnModes, caps \in AgentCaps }

\* The permission lists a spawn asks for: none, one in the ask set, one
\* forbidden.
SpawnPermissions == {{}, {"files.write"}, {"system.shell"}}

InitAgents == \E pol \in AgentPolicies : InitWith(pol)

NextAgents ==
    \/ \E c \in Callers : call_can_spawn(c)
    \/ \E c \in Callers : pause_spawning(c)
    \/ \E c \in Callers, perms \in SpawnPermissions, notify \in BOOLEAN :
           spawn(c, perms, notify)
    \/ \E c \in Callers : spawn_sent(c)
    \/ \E c \in Callers, sub \in Handles : terminate(c, sub)
    \/ \E c \in Callers : kill_all(c)
    \/ \E c \in Callers : kill_all_next(c)
    \/ Disconnect

SpecAgents == InitAgents /\ [][NextAgents]_vars

(***************************************************************************)
(* Spawn requests: callers request spawns, which the relay approves,       *)
(* rejects or answers without a decision.  request_spawn does not read the *)
(* permission list it passes on, so one list is asked for.                 *)
(***************************************************************************)
SpawnReplies ==
    { InMsg("agent_spawn_response", "record", k, "-", d, 0) :
        k \in Registered, d \in {"approved", "rejected", "-"} }

NextSpawnRequest ==
    \/ \E c \in Callers : request_spawn(c, {"files.write"})
    \/ \E c \in Callers : RequestSteps(c)
    \/ \E m \in SpawnReplies : Receive(m)
    \/ MessageLoop
    \/ LoopEnds
    \/ Disconnect

SpecSpawnRequest == Init /\ [][NextSpawnRequest]_vars

(***************************************************************************)
(* The example integration handling shell and write steps, while the relay *)
(* answers confirmation requests.  The policy is the default one or one a  *)
(* policy update has made of it, and does not change.                      *)
(***************************************************************************)
StepPolicies ==
    {DefaultPolicy} \cup
    { UpdatedPolicy(DefaultPolicy, PolicyPayloads[i]) : i \in DOMAIN PolicyPayloads }

\* The command names of shell steps: one that payload 1 puts on the
\* allow-list, one on no list.
Commands == {"ls", "rm"}

\* The target paths of write steps: one in no list unless payload 3 allows
\* /w/*, one the default forbidden patterns match.
WritePaths == { <<"/", "w", "/", "a">>, <<"/", ".", "e", "n", "v">> }

InitSteps == \E pol \in StepPolicies : InitWith(pol)

NextSteps ==
    \/ \E c \in Callers, cmd_name \in Commands : handle_shell_command(c, cmd_name)
    \/ \E c \in Callers, path \in WritePaths : handle_file_write(c, path)
    \/ \E c \in Callers : step_execute(c)
    \/ \E c \in Callers : step_reports(c)
    \/ \E c \in Callers : RequestSteps(c)
    \/ \E m \in ConfirmationReplies : Receive(m)
    \/ MessageLoop
    \/ LoopEnds
    \/ Disconnect

SpecSteps == InitSteps /\ [][NextSteps]_vars

(***************************************************************************)
(* The policy's queries under every snapshot of a small universe: the      *)
(* auto-spawn mode is any mode, the forbidden and the allowed set are any  *)
(* sets of two permissions, the ask set, the allowed paths and the         *)
(* forbidden paths are empty or not.                                       *)
(***************************************************************************)
SnapshotPermissions == {"files.write", "system.shell"}

PolicySnapshots ==
    { [DefaultPolicy EXCEPT !.auto_spawn_mode = m,
                            !.permissions_forbidden = f,
                            !.permissions_allowed = a,
                            !.permissions_ask = k,
                            !.allowed_paths = ap,
                            !.forbidden_paths = fp] :
        m \in AutoSpawnModes,
        f \in SUBSET SnapshotPermissions,
        a \in SUBSET SnapshotPermissions,
        k \in {{}, {"files.write"}},
        ap \in {<<>>, << <<"/", "w", "/", "*">> >>},
        fp \in {<<>>, DefaultPolicy.forbidden_paths} }

\* The targets of a query: None, and the paths of write steps.
Targets == {<<>>} \cup WritePaths

InitPolicy == \E pol \in PolicySnapshots : InitWith(pol)

NextPolicy ==
    \/ \E c \in Callers, permission \in SnapshotPermissions, target \in Targets :
           call_is_allowed(c, permission, target)
    \/ \E c \in Callers, permissions \in SUBSET SnapshotPermissions :
           call_would_auto_approve(c, permissions)

SpecPolicy == InitPolicy /\ [][NextPolicy]_vars

(***************************************************************************)
(* Check-ins: callers ask whether a check-in is required and wait for the  *)
(* user's response, the relay answers, and time passes.  The interval is   *)
(* an hour, or the longest the clock reaches.                              *)
(***************************************************************************)
CheckinPolicies ==
    { [DefaultPolicy EXCEPT !.check_in_hours = h] : h \in {1, MaxHours} }

\* The relay's replies to a check-in: the payload's request_id is a key of
\* the correlation table, null included.
CheckinReplies ==
    { InMsg("checkin_response", "record", k, a, "-", 0) :
        k \in Registered, a \in {"continue", "pause"} }

InitCheckin == \E pol \in CheckinPolicies : InitWith(pol)

NextCheckin ==
    \/ \E c \in Callers : is_required(c)
    \/ \E c \in Callers : wait_for_response(c)
    \/ \E c \in Callers : RequestSteps(c)
    \/ \E m \in CheckinReplies : Receive(m)
    \/ MessageLoop
    \/ LoopEnds
    \/ Disconnect
    \/ Tick

SpecCheckin == InitCheckin /\ [][NextCheckin]_vars

(***************************************************************************)
(* The dispatch loop under every kind of inbound message: callers confirm  *)
(* and the relay answers, the application registers handlers, and the      *)
(* relay pushes messages of known and unknown types, well-formed or not.   *)
(***************************************************************************)
\* The events the application registers a handler for.
HandlerEvents == {"confirmation_response", "on_message"}

\* Pushes: a policy update with a payload and without one, a user message
\* with and without, a message of a type the SDK does not know with a
\* payload, without one and with a payload that is no record, and a
\* message without a type.
Pushes ==
    { InMsg("policy_update", "record", NoRid, "-", "-", 2),
      InMsg("policy_update", "absent", NoRid, "-", "-", 0),
      InMsg("message", "record", NoRid, "-", "-", 0),
      InMsg("message", "absent", NoRid, "-", "-", 0),
      InMsg("ping", "record", NoRid, "-", "-", 0),
      InMsg("ping", "absent", NoRid, "-", "-", 0),
      InMsg("ping", "scalar", NoRid, "-", "-", 0),
      InMsg("-", "record", NoRid, "-", "-", 0) }

DispatchReplies ==
    { InMsg("confirmation_response", "record", k, "confirm", "-", 0) :
        k \in Registered }

NextDispatch ==
    \/ \E c \in Callers : confirm(c, "medium")
    \/ \E c \in Callers : RequestSteps(c)
    \/ \E event \in HandlerEvents : on(event)
    \/ \E m \in DispatchReplies : Receive(m)
    \/ \E m \in Pushes : Receive(m)
    \/ MessageLoop
    \/ HandlerReturns
    \/ LoopEnds
    \/ Disconnect

SpecDispatch == Init /\ [][NextDispatch]_vars

(***************************************************************************)
(* Policy updates: the relay pushes policy updates, the application may    *)
(* register a handler under their type, callers confirm, so that an update *)
(* may carry the identifier of a request in the table, and callers query   *)
(* the policy.                                                             *)
(***************************************************************************)
\* Messages of type policy_update: pushes carrying each of the payloads, and
\* one whose payload has the request_id of an entry of the table.
PolicyPushes ==
    { InMsg("policy_update", "record", NoRid, "-", "-", i) :
        i \in DOMAIN PolicyPayloads }
    \cup { InMsg("policy_update", "record", k, "-", "-", 2) : k \in Registered }

\* The path the policy queries are about: payload 3 allows it.
QueryTarget == <<"/", "w", "/", "a">>

NextPolicyUpdate ==
    \/ \E c \in Callers : confirm(c, "medium")
    \/ \E c \in Callers : RequestSteps(c)
    \/ \E c \in Callers, permission \in SnapshotPermissions :
           call_is_allowed(c, permission, QueryTarget)
    \/ on("policy_update")
    \/ \E m \in PolicyPushes : Receive(m)
    \/ MessageLoop
    \/ HandlerReturns
    \/ LoopEnds
    \/ Disconnect

SpecPolicyUpdate == Init /\ [][NextPolicyUpdate]_vars

(***************************************************************************)
(* The order of dispatch: two callers confirm, the application registers a *)
(* message handler, and the relay's replies and user messages queue up     *)
(* behind the message the loop is busy with.                               *)
(***************************************************************************)
\* The relay delivers message m behind messages that are waiting to be read.
Queues(m) ==
    /\ connected
    /\ loop \in {"running", "handling"}
    /\ Len(inbox) <= MaxInbox
    /\ inbox' = Append(inbox, m)
    /\ UNCHANGED <<policy, handlers, pending, connected, loop, lastDispatch, fut, nreq,
                   callerVars, agentVars, checkinVars>>

\* What the relay sends: a confirmation for a request in the table, and a
\* user message.
OrderedMessages ==
    DispatchReplies \cup {InMsg("message", "record", NoRid, "-", "-", 0)}

NextOrder ==
    \/ \E c \in Callers : confirm(c, "medium")
    \/ \E c \in Callers : RequestSteps(c)
    \/ on("on_message")
    \/ \E m \in OrderedMessages : Queues(m)
    \/ MessageLoop
    \/ HandlerReturns
    \/ LoopEnds
    \/ Disconnect

SpecOrder == Init /\ [][NextOrder]_vars

(***************************************************************************)
(* The hourly quota: callers ask whether they can spawn and spawn, while   *)
(* the hours pass.                                                         *)
(***************************************************************************)
NextQuota ==
    \/ \E c \in Callers : call_can_spawn(c)
    \/ \E c \in Callers, perms \in SpawnPermissions, notify \in BOOLEAN :
           spawn(c, perms, notify)
    \/ \E c \in Callers : spawn_sent(c)
    \/ Tick

SpecQuota == InitAgents /\ [][NextQuota]_vars

(***************************************************************************)
(* Termination: a sub-agent has been spawned, and the callers hold its     *)
(* handle: they terminate it and ask whether they can spawn, and the       *)
(* connection may close.                                                   *)
(***************************************************************************)
\* The state after one successful spawn and before any other call.
InitSpawned ==
    \E pol \in AgentPolicies :
        /\ policy = pol
        /\ handlers = {}
        /\ pending = [k \in Keys |-> 0]
        /\ connected = TRUE
        /\ inbox = <<>>
        /\ loop = "running"
        /\ lastDispatch = "-"
        /\ fut = [q \in Requests |-> NoFuture]
        /\ nreq = 0
        /\ pc = [c \in Callers |-> "idle"]
        /\ kont = [c \in Callers |-> "-"]
        /\ call = [c \in Callers |-> NoCall]
        /\ req = [c \in Callers |-> 0]
        /\ key = [c \in Callers |-> NoRid]
        /\ resp = [c \in Callers |-> NoMsg]
        /\ ret = [c \in Callers |-> "-"]
        /\ subret = [c \in Callers |-> 0]
        /\ sent = [c \in Callers |-> <<>>]
        /\ executed = [c \in Callers |-> FALSE]
        /\ active = <<1>>
        /\ spawned_this_hour = 1
        /\ substatus = [h \in Handles |-> IF h = 1 THEN "online" ELSE "none"]
        /\ nsub = 1
        /\ spawning_paused = FALSE
        /\ now = 0
        /\ last_checkin = NoTime
        /\ session_start = NoTime

NextTerminate ==
    \/ \E c \in Callers, sub \in Handles : terminate(c, sub)
    \/ \E c \in Callers : call_can_spawn(c)
    \/ Disconnect

SpecTerminate == InitSpawned /\ [][NextTerminate]_vars

(***************************************************************************)
(* The decorator: callers call a function wrapped by                       *)
(* spawn_safe("files.write") under policies that have the permission in    *)
(* any of the forbidden, allowed and ask sets, or in none, while the relay *)
(* answers confirmation requests.                                          *)
(***************************************************************************)
GuardedPermission == "files.write"

GuardPolicies ==
    { [DefaultPolicy EXCEPT !.permissions_forbidden = f,
                            !.permissions_allowed = a,
                            !.permissions_ask = k] :
        f \in SUBSET {GuardedPermission},
        a \in SUBSET {GuardedPermission},
        k \in SUBSET {GuardedPermission} }

InitGuard == \E pol \in GuardPolicies : InitWith(pol)

NextGuard ==
    \/ \E c \in Callers : spawn_safe(c, GuardedPermission)
    \/ \E c \in Callers : func_returns(c)
    \/ \E c \in Callers : RequestSteps(c)
    \/ \E m \in ConfirmationReplies : Receive(m)
    \/ MessageLoop
    \/ LoopEnds
    \/ Disconnect

SpecGuard == InitGuard /\ [][NextGuard]_vars

(***************************************************************************)
(* Connecting: the application connects, the relay answers the requests   *)
(* in the table, the deadline may pass, the websocket may close, and       *)
(* callers query the policy and ask for a confirmation.                    *)
(***************************************************************************)
\* SpawnConnection.__init__: no websocket, and no dispatch loop yet.
InitConnect ==
    /\ policy = DefaultPolicy
    /\ handlers = {}
    /\ pending = [k \in Keys |-> 0]
    /\ connected = FALSE
    /\ inbox = <<>>
    /\ loop = "not_started"
    /\ lastDispatch = "-"
    /\ fut = [q \in Requests |-> NoFuture]
    /\ nreq = 0
    /\ pc = [c \in Callers |-> "idle"]
    /\ kont = [c \in Callers |-> "-"]
    /\ call = [c \in Callers |-> NoCall]
    /\ req = [c \in Callers |-> 0]
    /\ key = [c \in Callers |-> NoRid]
    /\ resp = [c \in Callers |-> NoMsg]
    /\ ret = [c \in Callers |-> "-"]
    /\ subret = [c \in Callers |-> 0]
    /\ sent = [c \in Callers |-> <<>>]
    /\ executed = [c \in Callers |-> FALSE]
    /\ active = <<>>
    /\ spawned_this_hour = 0
    /\ substatus = [h \in Handles |-> "none"]
    /\ nsub = 0
    /\ spawning_paused = FALSE
    /\ now = 0
    /\ last_checkin = NoTime
    /\ session_start = NoTime

\* The relay's answers: a message of a type of its own, or of the type
\* policy_update, with a request's identifier and policy fields.
GetPolicyReplies ==
    { InMsg(t, "record", k, "-", "-", i) :
        t \in {"policy", "policy_update"}, k \in Registered, i \in {2, 3} }

NextConnect ==
    \/ \E c \in Callers : connect(c)
    \/ \E c \in Callers : fetch_policy(c)
    \/ \E c \in Callers : RequestSteps(c)
    \/ \E c \in Callers : call_is_allowed(c, GuardedPermission, QueryTarget)
    \/ \E c \in Callers : confirm(c, "medium")
    \/ \E m \in GetPolicyReplies : Receive(m)
    \/ MessageLoop
    \/ LoopEnds
    \/ Disconnect

SpecConnect == InitConnect /\ [][NextConnect]_vars

(***************************************************************************)
(* Path matching: callers ask whether a path is forbidden under a policy   *)
(* whose forbidden pattern is **/secrets/** or */secrets/*.  The paths are *)
(* made of a few segments, absolute or relative; a file name may hold a    *)
(* newline.                                                                *)
(***************************************************************************)
Secrets == <<"s", "e", "c", "r", "e", "t", "s">>

GlobPatterns ==
    { <<"*", "*", "/">> \o Secrets \o <<"/", "*", "*">>,
      <<"*", "/">> \o Secrets \o <<"/", "*">> }

GlobPolicies ==
    { [DefaultPolicy EXCEPT !.forbidden_paths = <<pattern>>] :
        pattern \in GlobPatterns }

Segments ==
    { <<"u">>, Secrets, Secrets \o <<"f", "o", "o">>, <<"a", "\n", "b">> }

\* The path in which every segment follows a separator.
RECURSIVE Join(_)
Join(segments) ==
    IF segments = <<>> THEN <<>>
    ELSE <<"/">> \o Head(segments) \o Join(Tail(segments))

AbsolutePaths ==
    { Join(ss) : ss \in UNION { [1..n -> Segments] : n \in 1..MaxSegments } }

\* /home/u/secrets/x, /home/u/a/secrets/b/c and /home/u/secretsfoo.
NamedPaths ==
    LET home == <<"h", "o", "m", "e">>
    IN  { Join(<<home, <<"u">>, Secrets, <<"x">> >>),
          Join(<<home, <<"u">>, <<"a">>, Secrets, <<"b">>, <<"c">> >>),
          Join(<<home, <<"u">>, Secrets \o <<"f", "o", "o">> >>) }

GlobPaths == AbsolutePaths \cup { Tail(p) : p \in AbsolutePaths } \cup NamedPaths

InitGlob == \E pol \in GlobPolicies : InitWith(pol)

NextGlob == \E c \in Callers, path \in GlobPaths : call_is_path_forbidden(c, path)

SpecGlob == InitGlob /\ [][NextGlob]_vars

TypeOK ==
    /\ nreq \in 0..MaxRequests
    /\ \A c \in Callers : req[c] \in 0..nreq
    /\ \A k \in Keys : pending[k] \in 0..nreq
    /\ loop \in {"not_started", "running", "handling", "crashed", "closed"}

(***************************************************************************)
(* The correlation layer: claims.                                          *)
(***************************************************************************)
\* The dispatch loop reads a message in this step.
LoopReads == loop = "running" /\ inbox # <<>> /\ inbox' = Tail(inbox)

\* Caller c has left its operation.
Left(c) == pc[c] \in {"done", "raised"}

\* C2: a request's completion slot is resolved at most once: once its future
\* holds a reply or is cancelled, no step changes it, whatever replies are
\* read (a second reply under the same request_id included) and whether or
\* not the deadline passes.
C2_ResolvedAtMostOnce ==
    [][\A q \in Requests :
          fut[q].state \in {"done", "cancelled"} => fut'[q] = fut[q]]_vars

\* A second reply under the key of a future that already holds one was read.
C2_Witness ==
    /\ lastDispatch = "invalid_state"
    /\ \E k \in Keys : pending[k] # 0 /\ fut[pending[k]].state = "done"

\* C3: when the dispatch loop reads a message whose payload.request_id is the
\* key of a pending request, that request's future takes exactly this
\* message and no other future changes; a caller whose future was resolved
\* while it awaited resumes with exactly that message; and whenever _request
\* returns a message, the future already held it before the return.
C3_ReplyReachesItsWaiter ==
    [][/\ \A q \in Requests :
            ( /\ LoopReads
              /\ Head(inbox).shape = "record"
              /\ Head(inbox).rid # NoRid
              /\ pending[Head(inbox).rid] = q
              /\ fut[q].state = "pending" )
            => /\ fut'[q] = [state |-> "done", result |-> Head(inbox)]
               /\ \A p \in Requests \ {q} : fut'[p] = fut[p]
       /\ \A c \in Callers :
            (pc[c] = "await" /\ fut[req[c]].state = "done" /\ pc'[c] # "await")
            => resp'[c] = fut[req[c]].result
       /\ \A c \in Callers :
            (resp'[c] # resp[c] /\ resp'[c] # NoMsg)
            => /\ fut[req[c]] = [state |-> "done", result |-> resp'[c]]
               /\ resp'[c].rid = key[c]
      ]_vars

\* A caller has resumed with its reply while another request is still pending.
C3_Witness ==
    \E c, d \in Callers :
        /\ pc[c] = "done" /\ resp[c] # NoMsg /\ resp[c] = fut[req[c]].result
        /\ pc[d] = "await" /\ fut[req[d]].state = "pending" /\ pending[key[d]] = req[d]

\* C4: a request that times out returns None, and once _request has returned
\* or raised, the table holds no entry under the request's key.
C4_NoResidualEntry ==
    \A c \in Callers :
        Left(c) =>
            /\ fut[req[c]].state = "cancelled" => resp[c] = NoMsg
            /\ pending[key[c]] = 0

\* C5: approval.confirm returns True only when its future was resolved with a
\* reply carrying its request_id and the action confirm; a reply with another
\* action or with none, and a timeout, make it return False.
C5_ConfirmFailsClosed ==
    \A c \in Callers :
        (call[c].op = "confirm" /\ pc[c] = "done") =>
            /\ ret[c] \in {"True", "False"}
            /\ ret[c] = "True" =>
                  /\ fut[req[c]].state = "done"
                  /\ fut[req[c]].result.rid = key[c]
                  /\ fut[req[c]].result.action = "confirm"
            /\ (fut[req[c]].state = "done" /\ fut[req[c]].result.action # "confirm")
                  => ret[c] = "False"
            /\ fut[req[c]].state = "cancelled" => ret[c] = "False"

\* One confirm was answered without an action, another timed out.
C5_Witness ==
    \E c, d \in Callers :
        /\ call[c].op = "confirm" /\ pc[c] = "done" /\ ret[c] = "False"
        /\ fut[req[c]].state = "done" /\ fut[req[c]].result.action = "-"
        /\ call[d].op = "confirm" /\ pc[d] = "done" /\ ret[d] = "False"
        /\ fut[req[d]].state = "cancelled"

(***************************************************************************)
(* The sub-agent registry: claims.                                         *)
(***************************************************************************)
\* The handles of the active set that are online.
Online == {i \in DOMAIN active : substatus[active[i]] = "online"}

\* C1: in every reachable state the number of online handles in the active
\* set is at most max_concurrent_sub_agents.
C1_ActiveWithinQuota ==
    Cardinality(Online) <= policy.max_concurrent_sub_agents

\* C9: request_spawn returns a handle only when its request was answered
\* with decision approved: the handle is new, online, appended to the active
\* set, and the hourly counter is one higher; on a rejection, a reply without
\* that decision or a timeout it returns None and the active set, the
\* counter and the handles are as they were.
C9_RequestSpawnOutcome ==
    [][\A c \in Callers :
          (call[c].op = "request_spawn" /\ ~Left(c) /\ pc'[c] = "done") =>
              IF resp'[c] # NoMsg /\ resp'[c].decision = "approved"
              THEN /\ fut[req[c]] = [state |-> "done", result |-> resp'[c]]
                   /\ subret'[c] \in Handles
                   /\ substatus[subret'[c]] = "none"
                   /\ substatus'[subret'[c]] = "online"
                   /\ active' = Append(active, subret'[c])
                   /\ spawned_this_hour' = spawned_this_hour + 1
              ELSE /\ subret'[c] = 0
                   /\ ret'[c] = "None"
                   /\ UNCHANGED <<active, spawned_this_hour, substatus, nsub>>
      ]_vars

\* One spawn request was approved and returned its handle, another was
\* rejected and returned None.
C9_Witness ==
    \E c, d \in Callers :
        /\ call[c].op = "request_spawn" /\ pc[c] = "done"
        /\ subret[c] # 0 /\ resp[c].decision = "approved"
        /\ \E i \in Online : active[i] = subret[c]
        /\ call[d].op = "request_spawn" /\ pc[d] = "done"
        /\ subret[d] = 0 /\ resp[d] # NoMsg /\ resp[d].decision = "rejected"

\* C10: spawn called with permissions that would not be auto-approved raises
\* PermissionError in its first step, having sent nothing and created no
\* handle, with the active set and the hourly counter unchanged; and it does
\* nothing afterwards.
C10_SpawnDeniedHasNoEffect ==
    [][\A c \in Callers :
          /\ ( /\ pc[c] = "idle"
               /\ call'[c].op = "spawn"
               /\ ~would_auto_approve(call'[c].perms) )
             => /\ pc'[c] = "raised"
                /\ ret'[c] = "PermissionError"
                /\ sent'[c] = <<>>
                /\ subret'[c] = 0
                /\ UNCHANGED <<active, spawned_this_hour, substatus, nsub>>
          /\ ret[c] = "PermissionError"
             => /\ pc'[c] = pc[c]
                /\ sent'[c] = sent[c]
                /\ subret'[c] = subret[c]
      ]_vars

\* In constrained mode a spawn asking for a permission of the ask set was
\* refused while another spawn had registered its handle.
C10_Witness ==
    \E c, d \in Callers :
        /\ policy.auto_spawn_mode = "constrained"
        /\ call[c].op = "spawn" /\ call[c].perms = {"files.write"}
        /\ pc[c] = "raised" /\ ret[c] = "PermissionError"
        /\ call[d].op = "spawn" /\ subret[d] # 0
        /\ active # <<>>

(***************************************************************************)
(* The policy and the step handlers: claims.                               *)
(***************************************************************************)
\* C6: under every policy snapshot, a permission of the forbidden set is not
\* allowed for any target, whatever the allowed set, the ask set and the
\* path lists hold: is_allowed is false for it, and a call of it returned
\* False.
C6_ForbiddenDominates ==
    /\ \A permission \in SnapshotPermissions, target \in Targets :
           permission \in policy.permissions_forbidden
               => ~is_allowed(permission, target)
    /\ \A c \in Callers :
           ( /\ call[c].op = "is_allowed" /\ pc[c] = "done"
             /\ call[c].perms \subseteq policy.permissions_forbidden )
           => ret[c] = "False"

\* files.write is forbidden and allowed at once, the target is in the allowed
\* paths and in no forbidden path, and is_allowed returned False for it.
C6_Witness ==
    \E c \in Callers :
        /\ call[c].op = "is_allowed" /\ pc[c] = "done" /\ ret[c] = "False"
        /\ call[c].perms = {"files.write"}
        /\ "files.write" \in policy.permissions_forbidden
        /\ "files.write" \in policy.permissions_allowed
        /\ call[c].path # <<>>
        /\ is_path_allowed(call[c].path) /\ ~is_path_forbidden(call[c].path)

\* The positions of the confirmation requests among what caller c has sent.
Confirmations(c) ==
    {i \in DOMAIN sent[c] : sent[c][i].type = "confirmation_request"}

\* C7: when system.shell is in the forbidden set, a shell step is over with
\* the handler's first step: the denial is the one message sent (the send
\* raises when the connection is closed), no confirmation request is ever
\* made and the step is not executed.
C7_ForbiddenShellIsDenied ==
    \A c \in Callers :
        ( /\ call[c].op = "handle_shell_command"
          /\ "system.shell" \in policy.permissions_forbidden )
        => /\ Left(c)
           /\ ~executed[c]
           /\ Confirmations(c) = {}
           /\ req[c] = 0
           /\ pc[c] = "done" => sent[c] = <<Notice("error")>>
           /\ pc[c] = "raised" => sent[c] = <<>> /\ ~connected

\* system.shell is forbidden and allowed at once, and a shell step was denied.
C7_Witness ==
    \E c \in Callers :
        /\ call[c].op = "handle_shell_command" /\ pc[c] = "done"
        /\ "system.shell" \in policy.permissions_forbidden
        /\ "system.shell" \in policy.permissions_allowed
        /\ sent[c] = <<Notice("error")>>

\* Caller c handles a write step whose path is in neither path list, with
\* files.write in the ask set.
AskedWrite(c) ==
    /\ call[c].op = "handle_file_write"
    /\ "files.write" \in policy.permissions_ask
    /\ ~is_path_allowed(call[c].path)
    /\ ~is_path_forbidden(call[c].path)

\* Request q was answered with confirm.
Confirmed(q) ==
    /\ fut[q].state = "done"
    /\ fut[q].result.rid = q
    /\ fut[q].result.action = "confirm"

\* C8, as stated: such a write step makes at most one confirmation request,
\* with danger level low, and the write is executed only if it was made and
\* answered with confirm.
C8_OneLowConfirmation ==
    \A c \in Callers :
        AskedWrite(c) =>
            /\ Cardinality(Confirmations(c)) <= 1
            /\ \A i \in Confirmations(c) : sent[c][i].danger = "low"
            /\ executed[c] =>
                  /\ Confirmations(c) # {}
                  /\ \A i \in Confirmations(c) : Confirmed(sent[c][i].id)

\* C8, amended: such a write step first makes a confirmation request with
\* danger level medium, for the path, and only when that was answered with
\* confirm a second one with danger level low; it makes no third.  The write
\* is executed only if both were made and answered with confirm; a step that
\* ended after another reply or a timeout has not executed it.
C8_MediumThenLowConfirmation ==
    \A c \in Callers :
        AskedWrite(c) =>
            /\ Confirmations(c) \subseteq {1, 2}
            /\ 1 \in Confirmations(c) => sent[c][1].danger = "medium"
            /\ 2 \in Confirmations(c) =>
                  /\ sent[c][2].danger = "low"
                  /\ 1 \in Confirmations(c)
                  /\ Confirmed(sent[c][1].id)
            /\ (pc[c] # "idle" /\ sent[c] # <<>>) => 1 \in Confirmations(c)
            /\ executed[c] =>
                  /\ Confirmations(c) = {1, 2}
                  /\ Confirmed(sent[c][1].id)
                  /\ Confirmed(sent[c][2].id)
            /\ ( /\ Left(c)
                 /\ \E i \in Confirmations(c) : ~Confirmed(sent[c][i].id) )
               => ~executed[c]

\* One such write step was executed after both confirmations, another was
\* skipped when its second request was answered with cancel.
C8_Witness ==
    \E c, d \in Callers :
        /\ AskedWrite(c) /\ pc[c] = "done" /\ executed[c]
        /\ Confirmations(c) = {1, 2}
        /\ AskedWrite(d) /\ pc[d] = "done" /\ ~executed[d]
        /\ Confirmations(d) = {1, 2}
        /\ fut[sent[d][2].id].state = "done"
        /\ fut[sent[d][2].id].result.action = "cancel"

\* What C11 says would_auto_approve gives for the scopes requested.
AutoApproves(permissions) ==
    CASE policy.auto_spawn_mode \in {"off", "queue"} -> FALSE
      [] policy.auto_spawn_mode = "unrestricted" -> TRUE
      [] policy.auto_spawn_mode = "trusted" ->
            permissions \cap policy.permissions_forbidden = {}
      [] policy.auto_spawn_mode = "constrained" ->
            /\ permissions \cap policy.permissions_forbidden = {}
            /\ permissions \cap policy.permissions_ask = {}

\* C11: would_auto_approve is false in the modes off and queue, true in the
\* mode unrestricted, and in the modes trusted and constrained true unless a
\* requested scope is forbidden or, in constrained mode only, in the ask set;
\* a call of it returned just that.
C11_AutoApproveByMode ==
    /\ \A permissions \in SUBSET SnapshotPermissions :
           would_auto_approve(permissions) = AutoApproves(permissions)
    /\ \A c \in Callers :
           (call[c].op = "would_auto_approve" /\ pc[c] = "done")
               => ret[c] = Bool(AutoApproves(call[c].perms))

\* With a scope of the ask set requested and none forbidden, a call returned
\* False in constrained mode or True in trusted mode, and a call with a
\* forbidden scope returned False.
C11_Witness ==
    \E c, d \in Callers :
        /\ c # d
        /\ call[c].op = "would_auto_approve" /\ pc[c] = "done"
        /\ call[c].perms = {"files.write"}
        /\ "files.write" \in policy.permissions_ask
        /\ "files.write" \notin policy.permissions_forbidden
        /\ ret[c] = Bool(policy.auto_spawn_mode = "trusted")
        /\ policy.auto_spawn_mode \in {"trusted", "constrained"}
        /\ call[d].op = "would_auto_approve" /\ pc[d] = "done"
        /\ call[d].perms = {"system.shell"}
        /\ "system.shell" \in policy.permissions_forbidden
        /\ ret[d] = "False"

\* What C12 says can_spawn gives.
MaySpawnMore ==
    \/ policy.auto_spawn_mode = "off"
    \/ ~ \/ Len(active) >= policy.max_concurrent_sub_agents
         \/ spawned_this_hour >= policy.max_sub_agents_per_hour

\* C12: can_spawn is true in mode off, and in every other mode false exactly
\* when the active count has reached max_concurrent_sub_agents or the hourly
\* count max_sub_agents_per_hour; a call of it returns just that.
C12_CanSpawnByQuota ==
    /\ [](can_spawn = MaySpawnMore)
    /\ [][\A c \in Callers :
             (pc[c] = "idle" /\ call'[c].op = "can_spawn")
                 => pc'[c] = "done" /\ ret'[c] = Bool(MaySpawnMore)]_vars

\* can_spawn returned False on the hourly cap alone: the active count was
\* below its cap.
C12_Witness ==
    \E c \in Callers :
        /\ call[c].op = "can_spawn" /\ pc[c] = "done" /\ ret[c] = "False"
        /\ Len(active) < policy.max_concurrent_sub_agents
        /\ spawned_this_hour >= policy.max_sub_agents_per_hour
        /\ policy.auto_spawn_mode # "off"

\* The handles in the active set.
Active == {active[i] : i \in DOMAIN active}

\* C13: once terminate has returned for a handle, the notice has been sent,
\* the handle's state is terminated and it is no longer in the active set.
C13_TerminateFreesSlot ==
    \A c \in Callers :
        (call[c].op = "terminate" /\ pc[c] = "done") =>
            /\ sent[c] = <<Notice("sub_agent_terminate")>>
            /\ substatus[call[c].handle] = "terminated"
            /\ call[c].handle \notin Active

\* C14: when kill_all ends, by returning or by an exception of a terminate
\* send, the active set is empty.
C14_KillAllClears ==
    [][\A c \in Callers :
          (call'[c].op = "kill_all" /\ ~Left(c) /\ pc'[c] \in {"done", "raised"})
              => active' = <<>>]_vars

\* C15: once pause_spawning has been called, every call of can_spawn returns
\* False, and the handles already active stay in the active set, online.
C15_PausedCannotSpawn ==
    [][\A c \in Callers :
          /\ (spawning_paused /\ pc[c] = "idle" /\ call'[c].op = "can_spawn")
                 => ret'[c] = "False"
          /\ (pc[c] = "idle" /\ call'[c].op = "pause_spawning")
                 => active' = active /\ substatus' = substatus]_vars

(***************************************************************************)
(* Check-ins: claims.                                                      *)
(***************************************************************************)
\* No caller has called is_required yet.
FirstRequired == \A b \in Callers : call[b].op # "is_required"

\* C16: the first call of is_required returns False and sets the session
\* start and the last check-in to now; every later call returns True exactly
\* when the hours since the last check-in are at least check_in_hours, and
\* sets nothing.
C16_RequiredAfterInterval ==
    [][\A c \in Callers :
          (pc[c] = "idle" /\ call'[c].op = "is_required") =>
              /\ pc'[c] = "done"
              /\ IF FirstRequired
                 THEN /\ ret'[c] = "False"
                      /\ session_start' = now
                      /\ last_checkin' = now
                 ELSE /\ ret'[c] = Bool(now - last_checkin >= policy.check_in_hours)
                      /\ UNCHANGED <<session_start, last_checkin>>
      ]_vars

\* A first call returned False and a later one True, just as the interval
\* was reached.
C16_Witness ==
    \E c, d \in Callers :
        /\ call[c].op = "is_required" /\ pc[c] = "done" /\ ret[c] = "False"
        /\ call[d].op = "is_required" /\ pc[d] = "done" /\ ret[d] = "True"
        /\ now - last_checkin = policy.check_in_hours
        /\ policy.check_in_hours > 1

\* C17: when wait_for_response returns after a reply, the reply had resolved
\* its request, the last check-in is now and the value returned is the
\* reply's payload; when it returns after the deadline, the value is the
\* pause decision and the last check-in is as it was.
C17_CheckinFailsClosed ==
    [][\A c \in Callers :
          (call[c].op = "wait_for_response" /\ ~Left(c) /\ pc'[c] = "done") =>
              IF resp'[c] # NoMsg
              THEN /\ fut[req[c]] = [state |-> "done", result |-> resp'[c]]
                   /\ last_checkin' = now
                   /\ ret'[c] = resp'[c].action
              ELSE /\ ret'[c] = "pause"
                   /\ last_checkin' = last_checkin
      ]_vars

\* A wait was answered with continue, at a later hour than the session's
\* first check-in, and returned it.
C17_Witness ==
    \E c \in Callers :
        /\ call[c].op = "wait_for_response" /\ pc[c] = "done"
        /\ resp[c] # NoMsg /\ ret[c] = "continue"
        /\ last_checkin > 0
        /\ session_start = 0

(***************************************************************************)
(* The dispatch loop: claims.                                              *)
(***************************************************************************)
\* The message the loop reads in this step is a reply for an identifier
\* that is not in the correlation table.
LateReply(data) ==
    /\ data.shape = "record"
    /\ data.rid # NoRid
    /\ pending[data.rid] = 0

\* C18: a message whose payload.request_id is not in the correlation table
\* is discarded: no future changes, no handler is invoked, the policy, the
\* registry and the callers are as they were.
C18_LateReplyDiscarded ==
    [][(LoopReads /\ LateReply(Head(inbox))) =>
          /\ lastDispatch' \notin {"handler", "on_message", "policy", "resolved"}
          /\ UNCHANGED <<policy, fut, pending, callerVars, agentVars>>]_vars

\* A message that is no reply, of a type that has no handler and is not
\* reserved; its payload is a record or is missing.
Unhandled(data) ==
    /\ data.shape \in {"record", "absent"}
    /\ data.rid = NoRid
    /\ data.type \notin handlers
    /\ data.type \notin {"policy_update", "message"}

C20_LoopNeverCrashes == loop # "crashed"

(***************************************************************************)
(* The loss of the connection: claims.                                     *)
(***************************************************************************)
\* C21: a lost connection resolves every pending request: once the websocket
\* is closed and the dispatch loop has ended, no caller is still waiting in
\* _request on a future that is pending.
C21_DisconnectResolvesPending ==
    (~connected /\ loop = "closed") =>
        \A c \in Callers : pc[c] = "await" => fut[req[c]].state # "pending"

(***************************************************************************)
(* Policy updates: claims.                                                 *)
(***************************************************************************)
\* The message is a policy update that is not taken as the reply to a
\* request in the table.
PolicyPush(data) ==
    /\ data.type = "policy_update"
    /\ data.shape = "record"
    /\ ~(data.rid # NoRid /\ pending[data.rid] # 0)

\* C22: every policy_update push that is not consumed as a reply updates the
\* policy, whether or not a handler is registered under policy_update: the
\* PolicyConfig fields its payload names take the payload's values, the
\* other fields keep theirs, and no other field appears.
C22_PolicyUpdateApplied ==
    [][(LoopReads /\ PolicyPush(Head(inbox))) =>
          LET data == PayloadData(Head(inbox))
          IN  /\ DOMAIN policy' = PolicyFields
              /\ \A k \in PolicyFields :
                     policy'[k] = IF k \in DOMAIN data THEN data[k] ELSE policy[k]]_vars

(***************************************************************************)
(* The order of dispatch: claims.                                          *)
(***************************************************************************)
\* Request q is resolved in this step.
Resolves(q) == fut[q].state = "pending" /\ fut'[q].state = "done"

\* C23: inbound messages are processed one at a time in arrival order.  The
\* queue only loses its oldest message and only grows at its end; what a
\* step resolves is the request the oldest message names, with that message
\* as its result; and while an awaited handler has not finished, no message
\* is taken, no request is resolved and the policy is not updated.
C23_OneAtATimeInOrder ==
    [][ /\ inbox' # inbox =>
               \/ inbox # <<>> /\ inbox' = Tail(inbox)
               \/ \E m \in OrderedMessages : inbox' = Append(inbox, m)
        /\ \A q \in Requests :
               Resolves(q) =>
                   /\ LoopReads
                   /\ Head(inbox).rid # NoRid
                   /\ pending[Head(inbox).rid] = q
                   /\ fut'[q].result = Head(inbox)
        /\ loop = "handling" =>
               /\ inbox' = inbox \/ \E m \in OrderedMessages : inbox' = Append(inbox, m)
               /\ policy' = policy
               /\ lastDispatch' = lastDispatch
               /\ \A q \in Requests : ~Resolves(q) ]_vars

\* The second request is resolved while the first one is pending, and the
\* loop is in a handler it awaits with the first request's reply waiting to
\* be read.
C23_Witness ==
    /\ loop = "handling"
    /\ fut[2].state = "done"
    /\ fut[1].state = "pending"
    /\ inbox # <<>>
    /\ Head(inbox).rid # NoRid
    /\ pending[Head(inbox).rid] = 1

\* The store pol after the whole of one of the relay's updates.
WholeUpdate(pol, i) ==
    [k \in PolicyFields |->
        IF k \in DOMAIN PolicyPayloads[i] THEN PolicyPayloads[i][k] ELSE pol[k]]

\* C24: no decision sees half an update.  The policy store changes only by
\* the whole of an update in one step of the dispatch loop, in which no
\* caller runs, and a decision is evaluated in one step over the store as
\* it is, which it leaves as it was.
C24_DecisionsSeeWholeUpdates ==
    [][ /\ policy' # policy =>
               /\ \E i \in DOMAIN PolicyPayloads : policy' = WholeUpdate(policy, i)
               /\ LoopReads
               /\ UNCHANGED callerVars
        /\ \A c \in Callers :
               (pc[c] = "idle" /\ pc'[c] = "done" /\ call'[c].op = "is_allowed") =>
                   /\ policy' = policy
                   /\ \E permission \in call'[c].perms :
                          ret'[c] = Bool(is_allowed(permission, call'[c].path)) ]_vars

\* A caller asked whether files.write is allowed on /w/a after the update
\* that allows the permission and the path, and before any other: the answer
\* is True, as it is under both of the update's fields and under neither alone.
C24_Witness ==
    \E c \in Callers :
        /\ pc[c] = "done" /\ call[c].op = "is_allowed"
        /\ call[c].perms = {"files.write"}
        /\ ret[c] = "True"
        /\ policy = WholeUpdate(DefaultPolicy, 3)

(***************************************************************************)
(* The hourly quota: claims.                                               *)
(***************************************************************************)
\* C25: the hourly spawn counter never decreases within an hour and is
\* reset at each hour boundary counted from the start of the process.
C25_HourlyCounterReset ==
    [][ /\ now' = now => spawned_this_hour' >= spawned_this_hour
        /\ now' # now => spawned_this_hour' = 0 ]_vars

(***************************************************************************)
(* Termination: claims.                                                    *)
(***************************************************************************)
\* Handle sub has been terminated: a terminate of it has returned.
Terminated(sub) ==
    \E d \in Callers :
        call[d].op = "terminate" /\ call[d].handle = sub /\ pc[d] = "done"

\* C26: terminate is idempotent: a terminate of a handle that is already
\* terminated sends no message and leaves the handle's status, the active
\* list and the counters as they are.
C26_TerminateIdempotent ==
    [][\A c \in Callers :
           ( /\ pc[c] = "idle" /\ pc'[c] # "idle"
             /\ call'[c].op = "terminate"
             /\ Terminated(call'[c].handle) )
           => /\ sent'[c] = <<>>
              /\ UNCHANGED <<active, spawned_this_hour, substatus, nsub>> ]_vars

(***************************************************************************)
(* The decorator: claims.                                                  *)
(***************************************************************************)
\* The permission is in none of the allowed, forbidden and ask sets.
Ungranted(permission) ==
    /\ permission \notin policy.permissions_allowed
    /\ permission \notin policy.permissions_forbidden
    /\ permission \notin policy.permissions_ask

\* C27: callers fail closed on an ungranted permission: is_allowed is false
\* for it, and a function wrapped by spawn_safe for it is not executed.
C27_UngrantedNotExecuted ==
    Ungranted(GuardedPermission) =>
        /\ ~is_allowed(GuardedPermission, <<>>)
        /\ \A c \in Callers : call[c].op = "spawn_safe" => ~executed[c]

(***************************************************************************)
(* Concurrent requests: claims.                                            *)
(***************************************************************************)
\* C28: a request removes and overwrites no entry but its own: every caller
\* that waits in _request, check-in waits included, has its own future in
\* the correlation table under the key it registered.
C28_EachRequestOwnsItsEntry ==
    \A c \in Callers :
        pc[c] \in {"await", "expired", "cancelling"} => pending[key[c]] = req[c]

(***************************************************************************)
(* Connecting: claims.                                                     *)
(***************************************************************************)
\* The relay's reply to the request caller c waits for has arrived.
ReplyArrived(c) ==
    \E i \in DOMAIN inbox :
        inbox[i].shape = "record" /\ inbox[i].rid = key[c]

\* C29: during connect, a reply to get_policy that arrives before the
\* deadline is delivered to _fetch_policy: the wait does not time out with
\* the reply received.
C29_FetchPolicyGetsItsReply ==
    [][\A c \in Callers :
           (call[c].op = "connect" /\ pc[c] = "await" /\ ReplyArrived(c))
               => pc'[c] # "expired"]_vars

(***************************************************************************)
(* Path matching: claims.                                                  *)
(***************************************************************************)
\* A glob pattern matches a whole path: "**" stands for any run of
\* characters, "*" for any run without a separator, any other character
\* for itself.
RECURSIVE GlobMatches(_, _)
GlobMatches(pattern, path) ==
    LET rest(k) == SubSeq(path, k + 1, Len(path))
    IN  IF pattern = <<>> THEN path = <<>>
        ELSE IF Len(pattern) >= 2 /\ pattern[1] = "*" /\ pattern[2] = "*"
             THEN \E k \in 0..Len(path) :
                      GlobMatches(SubSeq(pattern, 3, Len(pattern)), rest(k))
        ELSE IF pattern[1] = "*"
             THEN \E k \in 0..Len(path) :
                      /\ \A i \in 1..k : path[i] # "/"
                      /\ GlobMatches(Tail(pattern), rest(k))
        ELSE /\ path # <<>>
             /\ Head(path) = Head(pattern)
             /\ GlobMatches(Tail(pattern), Tail(path))

\* C30: path matching is anchored on the whole path, "*" matches any run of
\* characters without a separator and "**" any run, separators included:
\* what is_path_forbidden returned for a path is whether one of the
\* forbidden patterns matches it in that sense.
C30_GlobSemantics ==
    \A c \in Callers :
        (call[c].op = "is_path_forbidden" /\ pc[c] = "done") =>
            ret[c] = Bool(\E i \in DOMAIN policy.forbidden_paths :
                              GlobMatches(policy.forbidden_paths[i], call[c].path))

====
